---- MODULE Spec2Model ----
(***************************************************************************)
(* Model of the slicknode command line client: the deploy command          *)
(* (DeployCommand.run, getOrCreateEnvironment, getCluster) and the init    *)
(* command (InitCommand.run, getCluster).  One behaviour is one run of one *)
(* command; every await of the code is the end of one step.                *)
(*                                                                         *)
(* JavaScript values are modelled as follows.                              *)
(*   - a string is a sequence of tokens, so that template strings and      *)
(*     concatenation are computed and not assumed; the value undefined is  *)
(*     the reserved token sequence `undefined';                            *)
(*   - an object is a record, an absent property is an absent field, the   *)
(*     value null is the record JsNull;                                    *)
(*   - a latency is a natural number of milliseconds, the latency null of  *)
(*     a failed probe is LatencyNull.                                      *)
(***************************************************************************)
EXTENDS Integers, Sequences, FiniteSets

VARIABLES
    command,        \* which command runs: "deploy" or "init"
    pc,             \* position of the command's control flow
    options,        \* this.options of the deploy command
    envStore,       \* the environment store (.slicknoderc): name -> record
    calls,          \* every call of a collaborator, in order, with its outcome
    log,            \* every message printed, in order
    outcome,        \* "running", "returned" or "thrown"
    env,            \* deploy run: the environment getOrCreateEnvironment returned
    newName,        \* getOrCreateEnvironment: newName
    newAlias,       \* getOrCreateEnvironment: newAlias
    edges,          \* getCluster: the cluster ids of the listCluster edges, in order
    probes,         \* getCluster: one entry per edge, Pending or its latency
    cluster,        \* the cluster getCluster returned (NoCluster for null)
    choices,        \* init getCluster: the ranked choice list of the prompt
    sent,           \* the variables of the createProject call
    created,        \* the createProject response
    result,         \* deploy run: the migrateProject response
    files           \* the bundles whose files were extracted into the project directory

vars == <<command, pc, options, envStore, calls, log, outcome, env, newName,
          newAlias, edges, probes, cluster, choices, sent, created, result, files>>

----------------------------------------------------------------------------
(* Bounds of the model.                                                    *)

MaxClusters == 3

MaxLatency == 2

MaxChanges == 2

----------------------------------------------------------------------------
(* JavaScript values.                                                      *)

undefined == <<"#undefined">>

JsNull == [js |-> "null"]

NoEnv == [js |-> "undefined"]

LatencyNull == -1

Pending == -2

NoCluster == 0

\* obj[f], or undefined when the property is absent
Prop(obj, f) == IF f \in DOMAIN obj THEN obj[f] ELSE undefined

\* a || b on strings: undefined and the empty string are falsy
Or(a, b) == IF a = undefined \/ a = <<>> THEN b ELSE a

\* `${x}` in a template string
Str(x) == IF x = undefined THEN <<"undefined">> ELSE x

Truthy(e) == e # JsNull

RECURSIVE Filter(_, _)
Filter(s, keep) ==
    IF s = <<>> THEN <<>>
    ELSE IF Head(s) \in keep THEN <<Head(s)>> \o Filter(Tail(s), keep)
    ELSE Filter(Tail(s), keep)

Call(op, res) == [op |-> op, res |-> res]

Count(s, op) == Cardinality({i \in DOMAIN s : s[i].op = op})

Pos(s, op, res) ==
    IF \E i \in DOMAIN s : s[i] = Call(op, res)
    THEN CHOOSE i \in DOMAIN s :
            /\ s[i] = Call(op, res)
            /\ \A j \in DOMAIN s : s[j] = Call(op, res) => i <= j
    ELSE 0

Done(o) == /\ pc' = "done"
           /\ outcome' = o

----------------------------------------------------------------------------
(* The inputs of a run: command line options, the environment store on     *)
(* disk, and the responses of the backend.                                 *)

EnvNames == {<<"default">>, <<"staging">>}

StoredDefault ==
    [endpoint |-> <<"http://default">>, version |-> <<"v0">>,
     alias |-> <<"shop">>, consoleUrl |-> <<"console0">>,
     playgroundUrl |-> <<"playground0">>, name |-> <<"Shop">>, id |-> <<"id0">>]

StoredStaging ==
    [endpoint |-> <<"http://staging">>, version |-> <<"v1">>,
     alias |-> <<"shop-st">>, consoleUrl |-> <<"console1">>,
     playgroundUrl |-> <<"playground1">>, name |-> <<"Shop st">>, id |-> <<"id1">>]

Stores ==
    {[n \in EnvNames |-> IF n = <<"default">> THEN d ELSE s] :
        d \in {NoEnv, StoredDefault}, s \in {NoEnv, StoredStaging}}

DeployOptions ==
    [force : BOOLEAN,
     env : {undefined, <<"staging">>},
     name : {undefined, <<"Given name">>},
     alias : {undefined, <<"given-alias">>},
     account : {undefined}]

\* init has the flags name, alias and account (no force, no env)
InitOptions ==
    [force : {FALSE},
     env : {undefined},
     name : {undefined, <<"Given name">>},
     alias : {undefined, <<"given-alias">>},
     account : {undefined}]

\* createProject / migrateProject response nodes
FullNode ==
    [id |-> <<"id9">>, alias |-> <<"alias9">>, name |-> <<"Name9">>,
     endpoint |-> <<"http://ep9">>, consoleUrl |-> <<"console9">>,
     playgroundUrl |-> <<"playground9">>,
     version |-> [id |-> <<"v9">>, bundle |-> <<"http://bundle9">>]]

\* the node of the init test "initializes project successfully": no alias
NodeNoAlias ==
    [id |-> <<"234">>, name |-> <<"TestName">>, endpoint |-> <<"http://testproject">>,
     version |-> [id |-> <<"someid">>, bundle |-> <<"http://localhost/bundle">>]]

NodeNoVersion == [id |-> <<"234">>]

NodeNoBundle == [id |-> <<"234">>, version |-> [id |-> <<"someid">>]]

NodeEmptyBundle == [id |-> <<"234">>, version |-> [id |-> <<"someid">>, bundle |-> <<>>]]

ServerError == [message |-> <<"Error">>]

CreateProjectResponses ==
    {[node |-> n, errors |-> e] :
        n \in {FullNode, NodeNoAlias, NodeNoVersion}, e \in {<<>>}}
    \cup {[node |-> JsNull, errors |-> e] : e \in {<<>>, <<ServerError>>}}

ChangeTypes == {<<"ADD">>, <<"add">>, <<"update">>, <<"REMOVE">>}

RECURSIVE SeqsUpTo(_, _)
SeqsUpTo(S, n) ==
    IF n = 0 THEN {<<>>}
    ELSE LET shorter == SeqsUpTo(S, n - 1)
         IN  shorter \cup {Append(s, x) : s \in shorter, x \in S}

MigrateErrorLists ==
    {<<>>, <<ServerError>>, <<JsNull>>, <<JsNull, ServerError>>}

\* every shape of node, of errors and of top-level errors, and for the
\* responses of a deployed version every list of changes
MigrateResponses ==
    {[node |-> n, errors |-> e, changes |-> <<>>, topErrors |-> t] :
        n \in {FullNode, NodeNoVersion, NodeNoBundle, NodeEmptyBundle, JsNull},
        e \in MigrateErrorLists,
        t \in {<<>>, <<ServerError>>}}
    \cup
    {[node |-> FullNode, errors |-> e, changes |-> c, topErrors |-> <<>>] :
        e \in {<<>>, <<JsNull>>},
        c \in SeqsUpTo(ChangeTypes, MaxChanges)}

NoResult == [js |-> "undefined"]

Init ==
    /\ command \in {"deploy", "init"}
    /\ pc = "run"
    /\ options \in IF command = "deploy" THEN DeployOptions ELSE InitOptions
    /\ envStore \in Stores
    /\ calls = <<>>
    /\ log = <<>>
    /\ outcome = "running"
    /\ env = NoEnv
    /\ newName = undefined
    /\ newAlias = undefined
    /\ edges = <<>>
    /\ probes = <<>>
    /\ cluster = NoCluster
    /\ choices = <<>>
    /\ sent = NoResult
    /\ created = NoResult
    /\ result = NoResult
    /\ files = {}

----------------------------------------------------------------------------
(* The environment store of the base command.                              *)

getEnvironment(store, name) == store[name]

updateEnvironment(store, name, config) == [store EXCEPT ![name] = config]

----------------------------------------------------------------------------
(* DeployCommand.run, up to the environment resolution.                    *)

Logged(msg) == log' = Append(log, msg)

Called(op, res) == calls' = Append(calls, Call(op, res))

\* run: const config = await this.getConfig(); if (!config) { ... return; }
DeployGetConfig ==
    /\ command = "deploy" /\ pc = "run"
    /\ \E found \in BOOLEAN :
        IF found
        THEN /\ Called("getConfig", "ok")
             /\ pc' = "validate"
             /\ UNCHANGED <<log, outcome>>
        ELSE /\ Called("getConfig", "none")
             /\ log' = log \o <<<<"Deployment failed:">>,
                                <<"The directory is not a slicknode project.">>>>
             /\ Done("returned")
    /\ UNCHANGED <<command, options, envStore, env, newName, newAlias, probes,
                   cluster, choices, sent, result, files,
                   edges, created>>

\* run: const errors = await validate(...); if (errors.length) { ... return; }
DeployValidate ==
    /\ command = "deploy" /\ pc = "validate"
    /\ \E nErrors \in 0..1 :
        IF nErrors = 0
        THEN /\ Called("validate", "ok")
             /\ pc' = "updateRequired"
             /\ UNCHANGED <<log, outcome>>
        ELSE /\ Called("validate", "errors")
             /\ log' = log \o <<<<"Project configuration has errors:">>,
                                <<"1. ", "error">>>>
             /\ Done("returned")
    /\ UNCHANGED <<command, options, envStore, env, newName, newAlias, probes,
                   cluster, choices, sent, result, files,
                   edges, created>>

\* run: if (await this.updateRequired()) { return; }
DeployUpdateRequired ==
    /\ command = "deploy" /\ pc = "updateRequired"
    /\ \E required \in BOOLEAN :
        IF required
        THEN /\ Called("updateRequired", "required")
             /\ Done("returned")
        ELSE /\ Called("updateRequired", "ok")
             /\ pc' = "authenticate"
             /\ UNCHANGED outcome
    /\ UNCHANGED <<command, options, envStore, log, env, newName, newAlias,
                   probes, cluster, choices, sent, result, files,
                   edges, created>>

\* run: const authenticated = await this.authenticate(); if (!authenticated) return;
DeployAuthenticate ==
    /\ command = "deploy" /\ pc = "authenticate"
    /\ \E authenticated \in BOOLEAN :
        IF authenticated
        THEN /\ Called("authenticate", "ok")
             /\ pc' = "getOrCreateEnvironment"
             /\ UNCHANGED outcome
        ELSE /\ Called("authenticate", "failed")
             /\ Done("returned")
    /\ UNCHANGED <<command, options, envStore, log, env, newName, newAlias,
                   probes, cluster, choices, sent, result, files,
                   edges, created>>

----------------------------------------------------------------------------
(* DeployCommand.getOrCreateEnvironment, up to the call of getCluster.     *)

\* the bug of ignoring --env
EnvName_default(opts) == <<"default">>

\* const name = this.options.env || 'default';
EnvName(opts) == Or(opts.env, <<"default">>)

\* suggestedName: set only when a default environment exists
SuggestedName(defaultEnv, opts, name) ==
    IF defaultEnv # NoEnv
    THEN Or(opts.name, Str(Prop(defaultEnv, "name")) \o <<" (">> \o Str(name) \o <<")">>)
    ELSE undefined

\* suggestedAlias: set only when a default environment exists
SuggestedAlias(defaultEnv, opts, name) ==
    IF defaultEnv # NoEnv
    THEN Or(opts.alias, Str(Prop(defaultEnv, "alias")) \o <<"-">> \o Str(name))
    ELSE undefined

\* the questions asked when force is not set: one per value the caller did not supply
ValuePrompts(opts) ==
    (IF opts.name = undefined \/ opts.name = <<>> THEN <<"name">> ELSE <<>>)
    \o (IF opts.alias = undefined \/ opts.alias = <<>> THEN <<"alias">> ELSE <<>>)

\* what the user can answer to a question: type a valid value, or accept the default
Answers(typed, default) ==
    {typed} \cup (IF default = undefined THEN {} ELSE {default})

PromptCalls(questions) == [i \in DOMAIN questions |-> Call("prompt", questions[i])]

\* getOrCreateEnvironment: lookup of the environment; when it is missing, the
\* name and the alias of the project to create
DeployGetOrCreateEnvironment ==
    /\ command = "deploy" /\ pc = "getOrCreateEnvironment"
    /\ LET name == EnvName(options)
           found == getEnvironment(envStore, name)
           defaultEnv == getEnvironment(envStore, <<"default">>)
           suggestedName == SuggestedName(defaultEnv, options, name)
           suggestedAlias == SuggestedAlias(defaultEnv, options, name)
           questions == ValuePrompts(options)
       IN  IF found # NoEnv
           THEN /\ env' = found
                /\ calls' = calls \o <<Call("getEnvironment", "found"),
                                       Call("getOrCreateEnvironment", "ok")>>
                /\ pc' = "loadStatus"
                /\ UNCHANGED <<log, newName, newAlias>>
           ELSE /\ Logged(<<"Creating project for env ">> \o name)
                /\ UNCHANGED env
                /\ pc' = "getCluster"
                /\ IF options.force
                   THEN /\ newName' = suggestedName
                        /\ newAlias' = suggestedAlias
                        /\ calls' = calls \o <<Call("getEnvironment", "none"),
                                               Call("getEnvironment", "default")>>
                   ELSE \E nameAnswer \in Answers(<<"Typed name">>, suggestedName),
                           aliasAnswer \in Answers(<<"typed-alias">>, suggestedAlias) :
                        /\ newName' = IF \E i \in DOMAIN questions : questions[i] = "name"
                                      THEN nameAnswer ELSE suggestedName
                        /\ newAlias' = IF \E i \in DOMAIN questions : questions[i] = "alias"
                                       THEN aliasAnswer ELSE suggestedAlias
                        /\ calls' = calls \o <<Call("getEnvironment", "none"),
                                               Call("getEnvironment", "default")>>
                                          \o PromptCalls(questions)
    /\ UNCHANGED <<command, options, envStore, outcome, probes, cluster, choices,
                   sent, result, files,
                   edges, created>>

----------------------------------------------------------------------------
(* Array.prototype.sort with the comparators of the two getCluster         *)
(* functions.  The deploy comparator is not a consistent comparator, so    *)
(* the order it yields is the engine's: both V8 algorithms for short       *)
(* arrays are modelled, the insertion sort of Node <= 10 and the TimSort   *)
(* of Node >= 11.                                                          *)

Engines == {"insertion", "timsort"}

\* deploy: .sort((a, b) => a.latency < b.latency ? 1 : 0)
DeployCompare(a, b) == IF a.latency < b.latency THEN 1 ELSE 0

\* latency || Infinity is Infinity for null and for 0
IsInfinity(latency) == latency = LatencyNull \/ latency = 0

\* init: .sort((a, b) => (a.latency || Infinity) - (b.latency || Infinity));
\* Infinity - Infinity is NaN, which sort takes as +0
InitCompare(a, b) ==
    IF IsInfinity(a.latency) /\ IsInfinity(b.latency) THEN 0
    ELSE IF IsInfinity(a.latency) THEN 1
    ELSE IF IsInfinity(b.latency) THEN -1
    ELSE a.latency - b.latency

Compare(kind, a, b) ==
    IF kind = "init" THEN InitCompare(a, b) ELSE DeployCompare(a, b)

\* insertion sort: the element moves left past every tmp with comparefn(tmp, element) > 0
RECURSIVE InsertElement(_, _, _)
InsertElement(kind, s, element) ==
    IF s = <<>> THEN <<element>>
    ELSE LET tmp == s[Len(s)]
         IN  IF Compare(kind, tmp, element) > 0
             THEN Append(InsertElement(kind, SubSeq(s, 1, Len(s) - 1), element), tmp)
             ELSE Append(s, element)

RECURSIVE InsertionSort(_, _, _)
InsertionSort(kind, a, n) ==
    IF n <= 1 THEN SubSeq(a, 1, n)
    ELSE InsertElement(kind, InsertionSort(kind, a, n - 1), a[n])

\* TimSort, CountAndMakeRun: the last index of the run that starts at a[1]
RECURSIVE RunEnd(_, _, _, _)
RunEnd(kind, a, idx, descending) ==
    IF idx > Len(a) THEN idx - 1
    ELSE LET order == Compare(kind, a[idx], a[idx - 1])
         IN  IF (descending /\ order >= 0) \/ (~descending /\ order < 0)
             THEN idx - 1
             ELSE RunEnd(kind, a, idx + 1, descending)

RECURSIVE Reverse(_)
Reverse(s) == IF s = <<>> THEN <<>> ELSE Append(Reverse(Tail(s)), Head(s))

\* TimSort, BinaryInsertionSort: the place of pivot in s[left+1 .. right]
RECURSIVE BinarySearch(_, _, _, _, _)
BinarySearch(kind, s, pivot, left, right) ==
    IF left >= right THEN left
    ELSE LET mid == left + ((right - left) \div 2)
         IN  IF Compare(kind, pivot, s[mid + 1]) < 0
             THEN BinarySearch(kind, s, pivot, left, mid)
             ELSE BinarySearch(kind, s, pivot, mid + 1, right)

RECURSIVE BinaryInsertionSort(_, _, _)
BinaryInsertionSort(kind, a, start) ==
    IF start >= Len(a) THEN a
    ELSE LET pivot == a[start + 1]
             left == BinarySearch(kind, a, pivot, 0, start)
         IN  BinaryInsertionSort(kind,
                SubSeq(a, 1, left) \o <<pivot>> \o SubSeq(a, left + 1, start)
                    \o SubSeq(a, start + 2, Len(a)),
                start + 1)

\* TimSort of an array shorter than 64: one run, extended by binary insertion
TimSort(kind, a) ==
    IF Len(a) < 2 THEN a
    ELSE LET descending == Compare(kind, a[2], a[1]) < 0
             runLength == RunEnd(kind, a, 3, descending)
             made == IF descending
                     THEN Reverse(SubSeq(a, 1, runLength))
                            \o SubSeq(a, runLength + 1, Len(a))
                     ELSE a
         IN  BinaryInsertionSort(kind, made, runLength)

Sort(engine, kind, a) ==
    IF engine = "insertion" THEN InsertionSort(kind, a, Len(a)) ELSE TimSort(kind, a)

----------------------------------------------------------------------------
(* DeployCommand.getCluster.                                               *)

\* _.get(result, 'data.listCluster.edges', []): the clusters are named 1..n
Edges(n) == [i \in 1..n |-> i]

\* the result of one timer: { latency, cluster: node }
TimedDcs(e, p) == [i \in DOMAIN e |-> [latency |-> p[i], cluster |-> e[i]]]

\* the bug of waiting for the first timer only (Promise.race)
Settled_first(p) == p = <<>> \/ \E i \in DOMAIN p : p[i] # Pending

Settled(p) == \A i \in DOMAIN p : p[i] # Pending

\* the bug of probing every candidate twice
ProbeCalls_retry(n) == [i \in 1..(2 * n) |-> Call("probe", "issued")]

ProbeCalls(n) == [i \in 1..n |-> Call("probe", "issued")]

RECURSIVE Reachable(_)
Reachable(timed) ==
    IF timed = <<>> THEN <<>>
    ELSE IF Head(timed).latency # LatencyNull
         THEN <<Head(timed)>> \o Reachable(Tail(timed))
         ELSE Reachable(Tail(timed))

\* the bug of ranking the unreachable candidates too
AvailableDcs_unfiltered(engine, timed) == Sort(engine, "deploy", timed)

\* timedDcs.filter((d) => d.latency !== null).sort(...)
AvailableDcs(engine, timed) == Sort(engine, "deploy", Reachable(timed))

\* the bug of a fallback cluster when no candidate is available
DeploySelected_fallback(engine, timed) ==
    IF AvailableDcs(engine, timed) # <<>>
    THEN AvailableDcs(engine, timed)[1].cluster
    ELSE 1

\* availableDcs.length ? availableDcs[0].cluster : null
DeploySelected(engine, timed) ==
    IF AvailableDcs(engine, timed) # <<>>
    THEN AvailableDcs(engine, timed)[1].cluster
    ELSE NoCluster

\* getCluster: the listCluster query; unless it reports an error, one timer per
\* edge is started, and each timer issues its probe before the first await
DeployListCluster ==
    /\ command = "deploy" /\ pc = "getCluster"
    /\ \E n \in 0..MaxClusters, failed \in BOOLEAN :
        IF failed
        THEN /\ calls' = calls \o <<Call("listCluster", "errors"),
                                    Call("getCluster", "null")>>
             /\ log' = log \o <<<<"Load available clusters">>,
                                <<"Error loading clusters: ", "Error">>>>
             /\ edges' = Edges(n)
             /\ probes' = <<>>
             /\ cluster' = NoCluster
             /\ pc' = "createProject"
        ELSE /\ calls' = calls \o <<Call("listCluster", "ok")>> \o ProbeCalls(n)
             /\ Logged(<<"Load available clusters">>)
             /\ edges' = Edges(n)
             /\ probes' = [i \in 1..n |-> Pending]
             /\ UNCHANGED cluster
             /\ pc' = "awaitProbes"
    /\ UNCHANGED <<command, options, envStore, outcome, env, newName, newAlias,
                   choices, sent, result, files, created>>

\* one timer: fetch(node.pingUrl) settles; latency = Date.now() - start, or null
DeployProbeSettle ==
    /\ command = "deploy" /\ pc = "awaitProbes"
    /\ \E i \in DOMAIN probes, latency \in {LatencyNull} \cup (0..MaxLatency) :
        /\ probes[i] = Pending
        /\ probes' = [probes EXCEPT ![i] = latency]
    /\ UNCHANGED <<command, pc, options, envStore, calls, log, outcome, env,
                   newName, newAlias, cluster, choices, sent, result, files,
                   edges, created>>

\* await Promise.all(dcTimers), then the selection
DeploySelectCluster ==
    /\ command = "deploy" /\ pc = "awaitProbes"
    /\ Settled(probes)
    /\ \E engine \in Engines :
        /\ cluster' = DeploySelected(engine, TimedDcs(edges, probes))
        /\ Called("getCluster", IF cluster' = NoCluster THEN "null" ELSE "cluster")
    /\ pc' = "createProject"
    /\ UNCHANGED <<command, options, envStore, log, outcome, env, newName,
                   newAlias, probes, choices, sent, result, files,
                   edges, created>>

----------------------------------------------------------------------------
(* DeployCommand.getOrCreateEnvironment, after getCluster returned.        *)

\* the bug of storing the bundle reference as the version
EnvConfig_bundle(project) ==
    [endpoint |-> Prop(project, "endpoint"),
     version |-> Prop(project.version, "bundle"),
     alias |-> Prop(project, "alias"),
     consoleUrl |-> Prop(project, "consoleUrl"),
     playgroundUrl |-> Prop(project, "playgroundUrl"),
     name |-> Prop(project, "name"),
     id |-> Prop(project, "id")]

\* the record persisted and returned: envConfig
EnvConfig(project) ==
    [endpoint |-> Prop(project, "endpoint"),
     version |-> Prop(project.version, "id"),
     alias |-> Prop(project, "alias"),
     consoleUrl |-> Prop(project, "consoleUrl"),
     playgroundUrl |-> Prop(project, "playgroundUrl"),
     name |-> Prop(project, "name"),
     id |-> Prop(project, "id")]

\* the variables of the createProject mutation
Variables(name, alias, clusterId, account) ==
    [name |-> name, alias |-> alias, cluster |-> clusterId, account |-> account]

ErrorMessages(errors) == [i \in DOMAIN errors |-> errors[i].message]

\* the bug of writing the record before the response is checked
StoredAfterCreate_early(store, name, response) ==
    updateEnvironment(store, name,
        IF response.node = JsNull \/ "version" \notin DOMAIN response.node
        THEN [id |-> Prop(response.node, "id")]
        ELSE EnvConfig(response.node))

\* the store after the createProject response: written only when the response
\* has a node, and project.version.id did not throw
StoredAfterCreate(store, name, response) ==
    IF response.node = JsNull \/ "version" \notin DOMAIN response.node
    THEN store
    ELSE updateEnvironment(store, name, EnvConfig(response.node))

\* no cluster: throw; otherwise createProject; no node: throw; otherwise the
\* environment is stored and returned.  A node without version makes
\* project.version.id throw a TypeError before the store is written.
DeployCreateProject ==
    /\ command = "deploy" /\ pc = "createProject"
    /\ edges' = <<>>
    /\ probes' = <<>>
    /\ IF cluster = NoCluster
       THEN /\ Logged(<<"There is currently no cluster with sufficient capacity available. Try again later.">>)
            /\ Called("getOrCreateEnvironment", "throw")
            /\ Done("thrown")
            /\ UNCHANGED <<envStore, env, sent, created>>
       ELSE \E response \in CreateProjectResponses :
            LET project == response.node
            IN  /\ sent' = Variables(newName, newAlias, cluster, options.account)
                /\ created' = response
                /\ envStore' = StoredAfterCreate(envStore, EnvName(options), response)
                /\ IF project = JsNull
                   THEN /\ log' = log \o <<<<"ERROR: Could not create project. Please try again later.">>>>
                                      \o ErrorMessages(response.errors)
                        /\ calls' = calls \o <<Call("createProject", "no node"),
                                               Call("getOrCreateEnvironment", "throw")>>
                        /\ Done("thrown")
                        /\ UNCHANGED env
                   ELSE IF "version" \notin DOMAIN project
                   THEN /\ calls' = calls \o <<Call("createProject", "node"),
                                               Call("getOrCreateEnvironment", "throw")>>
                        /\ Done("thrown")
                        /\ UNCHANGED <<env, log>>
                   ELSE /\ env' = EnvConfig(project)
                        /\ calls' = calls \o <<Call("createProject", "node"),
                                               Call("updateEnvironment", "written"),
                                               Call("getOrCreateEnvironment", "ok")>>
                        /\ pc' = "loadStatus"
                        /\ UNCHANGED <<log, outcome>>
    /\ UNCHANGED <<command, options, newName, newAlias, cluster, choices, result, files>>

----------------------------------------------------------------------------
(* DeployCommand.run, after the environment resolution.                    *)

\* run: const validStatus = await this.loadAndPrintStatus(env); the locals of
\* getOrCreateEnvironment are gone once it has returned
DeployLoadStatus ==
    /\ command = "deploy" /\ pc = "loadStatus"
    /\ \E validStatus \in BOOLEAN :
        IF validStatus
        THEN /\ Called("loadStatus", "valid")
             /\ pc' = "confirm"
             /\ UNCHANGED outcome
        ELSE /\ Called("loadStatus", "invalid")
             /\ Done("returned")
    /\ newName' = undefined
    /\ newAlias' = undefined
    /\ cluster' = NoCluster
    /\ sent' = NoResult
    /\ created' = NoResult
    /\ UNCHANGED <<command, options, envStore, log, env, edges, probes, choices,
                   result, files>>

\* the bug of ignoring the answer
Confirmed_always(force, answer) == TRUE

\* whether the run goes on to the migration: force, or the answer to the prompt
Confirmed(force, answer) == force \/ answer

\* the bug of asking for the confirmation in forced mode too
Prompted_always(force) == TRUE

\* if (!this.options.force) { ... inquirer.prompt ... }
Prompted(force) == ~force

\* run: if (!this.options.force) { prompt; if (!values.confirm) { ...; return; } }
DeployConfirm ==
    /\ command = "deploy" /\ pc = "confirm"
    /\ IF ~Prompted(options.force)
       THEN /\ pc' = "migrate"
            /\ UNCHANGED <<calls, log, outcome>>
       ELSE \E answer \in BOOLEAN :
            /\ Called("confirm", IF answer THEN "yes" ELSE "no")
            /\ IF Confirmed(options.force, answer)
               THEN /\ pc' = "migrate"
                    /\ UNCHANGED <<log, outcome>>
               ELSE /\ Logged(<<"Deployment aborted">>)
                    /\ Done("returned")
    /\ UNCHANGED <<command, options, envStore, env, newName, newAlias, probes,
                   cluster, choices, sent, result, files,
                   edges, created>>

\* the bug of looking at errors[0] only, as getCluster does
ServerErrors_first(response) ==
    IF response.errors = <<>> \/ ~Truthy(response.errors[1])
    THEN <<>>
    ELSE <<response.errors[1]>>

\* _.get(result, 'data.migrateProject.errors', []).filter((e) => e)
ServerErrors(response) == Filter(response.errors, {e \in {ServerError, JsNull} : Truthy(e)})

\* the bug of taking an empty bundle reference for a bundle
NotDeployed_empty(project) ==
    \/ project = JsNull
    \/ "version" \notin DOMAIN project
    \/ "bundle" \notin DOMAIN project.version

\* !project || !project.version || !project.version.bundle
NotDeployed(project) ==
    \/ project = JsNull
    \/ "version" \notin DOMAIN project
    \/ "bundle" \notin DOMAIN project.version
    \/ project.version.bundle = <<>>

\* run: the migrateProject call and the checks of its response
DeployMigrate ==
    /\ command = "deploy" /\ pc = "migrate"
    /\ \E response \in MigrateResponses :
        /\ result' = response
        /\ IF ServerErrors(response) # <<>>
           THEN /\ Called("migrateProject", "errors")
                /\ log' = log \o ErrorMessages(ServerErrors(response))
                /\ Done("returned")
           ELSE IF NotDeployed(response.node)
           THEN /\ Called("migrateProject", "not deployed")
                /\ log' = log \o <<<<"The version was not deployed. Try again later.">>>>
                              \o [i \in DOMAIN response.topErrors |->
                                    <<"Error: ">> \o response.topErrors[i].message]
                /\ Done("returned")
           ELSE /\ Called("migrateProject", "deployed")
                /\ pc' = "loadProjectVersion"
                /\ UNCHANGED <<log, outcome>>
    /\ UNCHANGED <<command, options, envStore, env, newName, newAlias, probes,
                   cluster, choices, sent, files,
                   edges, created>>

\* the bug of counting under the tag as it was sent
ToLowerCase_asSent(type) == type

\* change.type.toLowerCase()
ToLowerCase(type) ==
    IF type \in {<<"ADD">>, <<"add">>} THEN <<"add">>
    ELSE IF type \in {<<"UPDATE">>, <<"update">>} THEN <<"update">>
    ELSE IF type \in {<<"REMOVE">>, <<"remove">>} THEN <<"remove">>
    ELSE type

\* the reduce over the changes: changeCounts[change.type.toLowerCase()] += 1
ChangeCounts(changes) ==
    [t \in {"add", "update", "remove"} |->
        Cardinality({i \in DOMAIN changes : ToLowerCase(changes[i]) = <<t>>})]

\* `${n}`
NumStr(n) == <<"0", "1", "2", "3", "4", "5">>[n + 1]

\* `${n === 1 ? 's' : ''}`
Suffix(n) == IF n = 1 THEN <<"s">> ELSE <<>>

Summary(counts) ==
    <<"Changes deployed to the slicknode servers: \n">>
    \o <<NumStr(counts["add"]), " addition">> \o Suffix(counts["add"]) \o <<", ">>
    \o <<NumStr(counts["update"]), " update">> \o Suffix(counts["update"]) \o <<", ">>
    \o <<NumStr(counts["remove"]), " removal">> \o Suffix(counts["remove"])

\* run: loadProjectVersion, then the deployment summary
DeployLoadProjectVersion ==
    /\ command = "deploy" /\ pc = "loadProjectVersion"
    /\ \E loaded \in BOOLEAN :
        IF loaded
        THEN /\ Called("loadProjectVersion", "ok")
             /\ log' = log \o <<Summary(ChangeCounts(result.changes)),
                                <<"Deployment successful!">>>>
             /\ files' = files \cup {result.node.version.bundle}
             /\ Done("returned")
        ELSE /\ Called("loadProjectVersion", "failed")
             /\ Logged(<<"Error loading project config from servers">>)
             /\ UNCHANGED files
             /\ Done("returned")
    /\ UNCHANGED <<command, options, envStore, env, newName, newAlias, probes,
                   cluster, choices, sent, result,
                   edges, created>>

Deploy ==
    \/ DeployGetConfig
    \/ DeployValidate
    \/ DeployUpdateRequired
    \/ DeployAuthenticate
    \/ DeployGetOrCreateEnvironment
    \/ DeployListCluster
    \/ DeployProbeSettle
    \/ DeploySelectCluster
    \/ DeployCreateProject
    \/ DeployLoadStatus
    \/ DeployConfirm
    \/ DeployMigrate
    \/ DeployLoadProjectVersion

----------------------------------------------------------------------------
(* InitCommand.run, up to the call of getCluster.                          *)

\* the bug of not looking for the record
Initialized_never(store) == FALSE

\* const env = await this.getEnvironment('default', true); if (env) ...
Initialized(store) == getEnvironment(store, <<"default">>) # NoEnv

\* run: const env = await this.getEnvironment('default', true); if (env) this.error(...)
InitCheckInitialized ==
    /\ command = "init" /\ pc = "run"
    /\ IF Initialized(envStore)
       THEN /\ Called("getEnvironment", "found")
            /\ Logged(<<"The directory is already initialized as a slicknode project">>)
            /\ Done("thrown")
       ELSE /\ Called("getEnvironment", "none")
            /\ pc' = "updateRequired"
            /\ UNCHANGED <<log, outcome>>
    /\ UNCHANGED <<command, options, envStore, env, newName, newAlias, probes,
                   cluster, choices, sent, result, files,
                   edges, created>>

\* run: if (await this.updateRequired()) { return; }
InitUpdateRequired ==
    /\ command = "init" /\ pc = "updateRequired"
    /\ \E required \in BOOLEAN :
        IF required
        THEN /\ Called("updateRequired", "required")
             /\ Done("returned")
        ELSE /\ Called("updateRequired", "ok")
             /\ pc' = "authenticate"
             /\ UNCHANGED outcome
    /\ UNCHANGED <<command, options, envStore, log, env, newName, newAlias,
                   probes, cluster, choices, sent, result, files,
                   edges, created>>

\* name.toLowerCase()
NameToLowerCase(name) ==
    IF name = <<"Given name">> THEN <<"given name">> ELSE name

\* run: authenticate, then the name and the alias of the project and its directory
InitAuthenticate ==
    /\ command = "init" /\ pc = "authenticate"
    /\ \E authenticated \in BOOLEAN, dirExplicitlySet \in BOOLEAN, made \in BOOLEAN :
        LET name == Or(options.name, <<"random-name">>)
            alias == Or(options.alias, NameToLowerCase(name) \o <<"-">> \o <<"uuid8">>)
        IN  IF ~authenticated
            THEN /\ Called("authenticate", "failed")
                 /\ Done("returned")
                 /\ UNCHANGED <<log, newName, newAlias>>
            ELSE IF options.name # undefined /\ ~dirExplicitlySet /\ ~made
            THEN /\ calls' = calls \o <<Call("authenticate", "ok"), Call("mkdirp", "failed")>>
                 /\ Logged(<<"ERROR: Failed to create project directory">>)
                 /\ Done("thrown")
                 /\ UNCHANGED <<newName, newAlias>>
            ELSE /\ calls' = calls \o <<Call("authenticate", "ok")>>
                        \o (IF options.name # undefined /\ ~dirExplicitlySet
                            THEN <<Call("mkdirp", "ok")>> ELSE <<>>)
                 /\ newName' = name
                 /\ newAlias' = alias
                 /\ pc' = "getCluster"
                 /\ UNCHANGED <<log, outcome>>
    /\ UNCHANGED <<command, options, envStore, env, probes, cluster, choices,
                   sent, result, files,
                   edges, created>>

----------------------------------------------------------------------------
(* InitCommand.getCluster.                                                 *)

\* dcTimers.sort(...).map(({cluster}) => ({value: cluster})): the ranked choices
InitChoices(engine, timed) ==
    LET sorted == Sort(engine, "init", timed)
    IN  [i \in DOMAIN sorted |-> sorted[i].cluster]

\* getCluster: the listCluster query; one edge is returned at once, no edge is
\* null, otherwise one timer per edge is started
InitListCluster ==
    /\ command = "init" /\ pc = "getCluster"
    /\ \E n \in 0..MaxClusters, failed \in BOOLEAN :
        LET listed == Call("listCluster", IF failed THEN "errors" ELSE "ok")
        IN  /\ edges' = Edges(n)
            /\ IF n = 1
               THEN /\ calls' = calls \o <<listed, Call("getCluster", "cluster")>>
                    /\ cluster' = edges'[1]
                    /\ probes' = <<>>
                    /\ pc' = "createProject"
               ELSE IF n = 0
               THEN /\ calls' = calls \o <<listed, Call("getCluster", "null")>>
                    /\ cluster' = NoCluster
                    /\ probes' = <<>>
                    /\ pc' = "createProject"
               ELSE /\ calls' = calls \o <<listed>> \o ProbeCalls(n)
                    /\ probes' = [i \in 1..n |-> Pending]
                    /\ UNCHANGED cluster
                    /\ pc' = "awaitProbes"
    /\ UNCHANGED <<command, options, envStore, log, outcome, env, newName,
                   newAlias, choices, sent, result, files, created>>

\* one timer: fetch(node.pingUrl) settles; latency = Date.now() - start, or null
InitProbeSettle ==
    /\ command = "init" /\ pc = "awaitProbes"
    /\ \E i \in DOMAIN probes, latency \in {LatencyNull} \cup (0..MaxLatency) :
        /\ probes[i] = Pending
        /\ probes' = [probes EXCEPT ![i] = latency]
    /\ UNCHANGED <<command, pc, options, envStore, calls, log, outcome, env,
                   newName, newAlias, cluster, choices, sent, result, files,
                   edges, created>>

\* await Promise.all(...), then the prompt with the ranked choices; the user
\* selects any of them
InitSelectCluster ==
    /\ command = "init" /\ pc = "awaitProbes"
    /\ Settled(probes)
    /\ \E engine \in Engines :
        /\ choices' = InitChoices(engine, TimedDcs(edges, probes))
        /\ \E k \in DOMAIN choices' : cluster' = choices'[k]
    /\ calls' = calls \o <<Call("prompt", "cluster"), Call("getCluster", "cluster")>>
    /\ pc' = "createProject"
    /\ UNCHANGED <<command, options, envStore, log, outcome, env, newName,
                   newAlias, probes, sent, result, files,
                   edges, created>>

----------------------------------------------------------------------------
(* InitCommand.run, after getCluster returned.                             *)

\* run: no cluster is an error; otherwise the createProject mutation
InitCreateProject ==
    /\ command = "init" /\ pc = "createProject"
    /\ edges' = <<>>
    /\ probes' = <<>>
    /\ choices' = <<>>
    /\ IF cluster = NoCluster
       THEN /\ Logged(<<"Could not load available clusters. Make sure you have a working internet connection and try again.">>)
            /\ Done("thrown")
            /\ UNCHANGED <<calls, sent, created>>
       ELSE \E response \in CreateProjectResponses \cup {[node |-> NodeNoBundle, errors |-> <<>>]} :
            /\ sent' = Variables(newName, newAlias, cluster, options.account)
            /\ created' = response
            /\ Called("createProject", IF response.node = JsNull THEN "no node" ELSE "node")
            /\ pc' = "loadBundle"
            /\ UNCHANGED <<log, outcome>>
    /\ UNCHANGED <<command, options, envStore, env, newName, newAlias, cluster,
                   result, files>>

\* the bug of storing the alias as the name
InitRecord_alias(project) ==
    [endpoint |-> Prop(project, "endpoint"),
     version |-> Prop(project.version, "id"),
     alias |-> Prop(project, "alias"),
     consoleUrl |-> Prop(project, "consoleUrl"),
     playgroundUrl |-> Prop(project, "playgroundUrl"),
     name |-> Prop(project, "alias"),
     id |-> Prop(project, "id")]

\* the record of this.updateEnvironment('default', {...}, targetDir)
InitRecord(project) ==
    [endpoint |-> Prop(project, "endpoint"),
     version |-> Prop(project.version, "id"),
     alias |-> Prop(project, "alias"),
     consoleUrl |-> Prop(project, "consoleUrl"),
     playgroundUrl |-> Prop(project, "playgroundUrl"),
     name |-> Prop(project, "name"),
     id |-> Prop(project, "id")]

\* the bug of writing the record before the bundle is loaded
InitStored_early(store, project, failure) ==
    updateEnvironment(store, <<"default">>, InitRecord(project))

\* the store after the try block: the statements before updateEnvironment are
\* the fetch of the bundle, its write to disk and its extraction, and when one
\* of them throws the record is not written
InitStored(store, project, failure) ==
    IF failure \in {"fetch", "write", "extract"}
    THEN store
    ELSE updateEnvironment(store, <<"default">>, InitRecord(project))

InitFailed(message) ==
    /\ Logged(<<"Initialization failed: ">> \o message)
    /\ Done("thrown")

\* run: the try block; every error thrown in it is reported as
\* `Initialization failed: ${e.message}`
InitLoadBundle ==
    /\ command = "init" /\ pc = "loadBundle"
    /\ LET project == created.node
       IN  IF project = JsNull
           THEN /\ InitFailed(<<"ERROR: Could not create project. Please try again later.">>
                              \o ErrorMessages(created.errors))
                /\ UNCHANGED <<calls, envStore, files>>
           ELSE IF "version" \notin DOMAIN project
                   \/ "bundle" \notin DOMAIN project.version
                   \/ project.version.bundle = <<>>
           THEN /\ InitFailed(<<"Project was created but could not be fully initialized, possibly because of no available capacity. Try to clone the project later.">>)
                /\ UNCHANGED <<calls, envStore, files>>
           ELSE \E failure \in {"none", "fetch", "write", "extract", "copy"} :
                CASE failure = "fetch" ->
                        /\ Called("fetchBundle", "failed")
                        /\ InitFailed(<<"request failed">>)
                        /\ envStore' = InitStored(envStore, project, failure)
                        /\ UNCHANGED files
                  [] failure = "write" ->
                        /\ calls' = calls \o <<Call("fetchBundle", "ok"), Call("writeFile", "failed")>>
                        /\ InitFailed(<<"Could not write bundle to disk: \n", "Message: ", "EACCES">>)
                        /\ envStore' = InitStored(envStore, project, failure)
                        /\ UNCHANGED files
                  [] failure = "extract" ->
                        /\ calls' = calls \o <<Call("fetchBundle", "ok"), Call("writeFile", "ok"),
                                               Call("extract", "failed")>>
                        /\ InitFailed(<<"Invalid or unsupported zip format">>)
                        /\ envStore' = InitStored(envStore, project, failure)
                        /\ UNCHANGED files
                  [] failure = "copy" ->
                        /\ calls' = calls \o <<Call("fetchBundle", "ok"), Call("writeFile", "ok"),
                                               Call("extract", "ok"),
                                               Call("updateEnvironment", "written"),
                                               Call("copy", "failed")>>
                        /\ envStore' = InitStored(envStore, project, failure)
                        /\ files' = files \cup {project.version.bundle}
                        /\ InitFailed(<<"copy failed">>)
                  [] OTHER ->
                        /\ calls' = calls \o <<Call("fetchBundle", "ok"), Call("writeFile", "ok"),
                                               Call("extract", "ok"),
                                               Call("updateEnvironment", "written"),
                                               Call("copy", "ok")>>
                        /\ envStore' = InitStored(envStore, project, failure)
                        /\ files' = files \cup {project.version.bundle}
                        /\ log' = log \o <<<<"Your GraphQL Server is ready: ", "Endpoint: ">>
                                             \o Str(Prop(project, "endpoint"))
                                             \o <<"Name: ">> \o Str(Prop(project, "name")),
                                           <<"Start exploring now...">>>>
                        /\ Done("returned")
    /\ UNCHANGED <<command, options, env, newName, newAlias, probes, cluster,
                   choices, sent, result,
                   edges, created>>

InitCmd ==
    \/ InitCheckInitialized
    \/ InitUpdateRequired
    \/ InitAuthenticate
    \/ InitListCluster
    \/ InitProbeSettle
    \/ InitSelectCluster
    \/ InitCreateProject
    \/ InitLoadBundle

Next == Deploy \/ InitCmd

Spec == Init /\ [][Next]_vars

----------------------------------------------------------------------------
(* Properties.                                                             *)

\* the environment name of the run, read from the options
RunEnvName == IF options.env = undefined THEN <<"default">> ELSE options.env

Has(op, res) == Pos(calls, op, res) > 0

DeploySteps ==
    <<Call("getConfig", "ok"), Call("validate", "ok"), Call("updateRequired", "ok"),
      Call("authenticate", "ok"), Call("getOrCreateEnvironment", "ok"),
      Call("loadStatus", "valid")>>

DeployFailures ==
    {Call("getConfig", "none"), Call("validate", "errors"),
     Call("updateRequired", "required"), Call("authenticate", "failed"),
     Call("getOrCreateEnvironment", "throw"), Call("loadStatus", "invalid"),
     Call("confirm", "no")}

StepPos(k) == Pos(calls, DeploySteps[k].op, DeploySteps[k].res)

\* C1: in a deploy run migrateProject is called at most once, and only after the
\* config was found, validation had no errors, no update was required,
\* authentication succeeded, the environment was resolved and the status was
\* valid, in this order, and then force is set or the confirmation was answered
\* yes; once one of these steps failed or was declined it is never called.
C1_MigrateOnlyAfterAllSteps ==
    command = "deploy" =>
        /\ Count(calls, "migrateProject") <= 1
        /\ \A m \in DOMAIN calls : calls[m].op = "migrateProject" =>
            /\ \A k \in DOMAIN DeploySteps : StepPos(k) > 0 /\ StepPos(k) < m
            /\ \A k \in 1..(Len(DeploySteps) - 1) : StepPos(k) < StepPos(k + 1)
            /\ \/ options.force
               \/ /\ Pos(calls, "loadStatus", "valid") < Pos(calls, "confirm", "yes")
                  /\ Pos(calls, "confirm", "yes") < m
        /\ (\E i \in DOMAIN calls : calls[i] \in DeployFailures)
                => Count(calls, "migrateProject") = 0

C1_Witness ==
    /\ command = "deploy"
    /\ Count(calls, "migrateProject") = 1
    /\ Has("confirm", "yes")
    /\ Has("createProject", "node")

\* C2 as stated: whenever the migrateProject response has a non-empty errors
\* array, the run aborts and loadProjectVersion is never called.
C2_AnyErrorsArrayAborts ==
    (command = "deploy" /\ result # NoResult /\ result.errors # <<>>) =>
        /\ pc = "done"
        /\ Count(calls, "loadProjectVersion") = 0

Banner == <<"Deployment successful!">>

InLog(msg) == \E j \in DOMAIN log : log[j] = msg

\* C2 as amended: whenever the errors array of the migrateProject response has
\* an entry that is not null, the run returns after printing every such error,
\* loadProjectVersion is never called and no file is refreshed, also when the
\* response has a node with a version bundle.
C2_ErrorsAbortBeforeRefresh ==
    (/\ command = "deploy"
     /\ result # NoResult
     /\ \E i \in DOMAIN result.errors : result.errors[i] # JsNull) =>
        /\ pc = "done"
        /\ outcome = "returned"
        /\ Count(calls, "loadProjectVersion") = 0
        /\ files = {}
        /\ ~InLog(Banner)
        /\ \A i \in DOMAIN result.errors :
              result.errors[i] # JsNull => InLog(result.errors[i].message)

C2_Witness ==
    /\ command = "deploy"
    /\ result # NoResult
    /\ result.errors = <<JsNull, ServerError>>
    /\ result.node = FullNode
    /\ pc = "done"

Incomplete(node) ==
    \/ node = JsNull
    \/ "version" \notin DOMAIN node
    \/ "bundle" \notin DOMAIN node.version
    \/ node.version.bundle = <<>>

\* C3: whenever the migrateProject response has no error and its node is
\* missing, or has no version, or its version has no non-empty bundle, the run
\* returns with the message that the version was not deployed,
\* loadProjectVersion is never called, no file is refreshed and the success
\* banner is not printed.
C3_NotDeployedAborts ==
    (/\ command = "deploy"
     /\ result # NoResult
     /\ \A i \in DOMAIN result.errors : result.errors[i] = JsNull
     /\ Incomplete(result.node)) =>
        /\ pc = "done"
        /\ outcome = "returned"
        /\ InLog(<<"The version was not deployed. Try again later.">>)
        /\ Count(calls, "loadProjectVersion") = 0
        /\ files = {}
        /\ ~InLog(Banner)

C3_Witness ==
    /\ command = "deploy"
    /\ result # NoResult
    /\ result.errors = <<>>
    /\ result.node = NodeEmptyBundle
    /\ InLog(<<"The version was not deployed. Try again later.">>)

\* C4: in deploy, when the environment has no record and getCluster returned
\* no cluster or the createProject response has no node, getOrCreateEnvironment
\* throws and leaves the environment store as it was; the store is written
\* only in the step that received a createProject response with a node, after
\* that response.
C4_NoPartialRecord ==
    [][command = "deploy" =>
        /\ (pc = "createProject" /\ envStore[RunEnvName] = NoEnv
            /\ (cluster = NoCluster \/ (created' # NoResult /\ created'.node = JsNull))) =>
                /\ outcome' = "thrown"
                /\ envStore' = envStore
                /\ calls'[Len(calls')] = Call("getOrCreateEnvironment", "throw")
        /\ (pc = "createProject" /\ cluster = NoCluster) =>
                Count(calls', "createProject") = 0
        /\ envStore' # envStore =>
                /\ pc = "createProject"
                /\ created' # NoResult
                /\ created'.node # JsNull
                /\ Pos(calls', "createProject", "node") > 0
                /\ Pos(calls', "createProject", "node")
                        < Pos(calls', "updateEnvironment", "written")
                /\ \A n \in EnvNames \ {RunEnvName} : envStore'[n] = envStore[n]
    ]_vars

C4_Witness ==
    /\ command = "deploy"
    /\ outcome = "thrown"
    /\ created # NoResult
    /\ created.node = JsNull
    /\ envStore[RunEnvName] = NoEnv

\* C5: when the environment name has a record in the store,
\* getOrCreateEnvironment returns that record, leaves the store unchanged and
\* makes no listCluster call, no probe, no createProject call and no prompt.
C5_ExistingEnvironmentReturned ==
    [][(command = "deploy" /\ pc = "getOrCreateEnvironment"
        /\ envStore[RunEnvName] # NoEnv) =>
            /\ pc' = "loadStatus"
            /\ env' = envStore[RunEnvName]
            /\ envStore' = envStore
            /\ calls'[Len(calls')] = Call("getOrCreateEnvironment", "ok")
            /\ \A op \in {"listCluster", "probe", "createProject", "prompt",
                          "updateEnvironment"} : Count(calls', op) = 0
    ]_vars

C5_Witness ==
    /\ command = "deploy"
    /\ pc = "loadStatus"
    /\ Has("getEnvironment", "found")
    /\ options.env = <<"staging">>
    /\ env = StoredStaging
    /\ envStore[<<"default">>] # NoEnv

\* C6: when getOrCreateEnvironment created a project, the record stored under
\* the environment name, which is the record returned, has the endpoint,
\* version, alias, id and name of the response node (version being version.id),
\* and no record of another name is added or changed.
C6_PersistedRecordMatchesNode ==
    [][(command = "deploy" /\ pc = "createProject" /\ pc' = "loadStatus") =>
        LET node == created'.node
            rec == envStore'[RunEnvName]
        IN  /\ rec # NoEnv
            /\ rec.endpoint = Prop(node, "endpoint")
            /\ rec.version = Prop(node.version, "id")
            /\ rec.alias = Prop(node, "alias")
            /\ rec.id = Prop(node, "id")
            /\ rec.name = Prop(node, "name")
            /\ env' = rec
            /\ \A n \in EnvNames \ {RunEnvName} : envStore'[n] = envStore[n]
    ]_vars

C6_Witness ==
    /\ command = "deploy"
    /\ pc = "loadStatus"
    /\ created # NoResult
    /\ created.node = FullNode
    /\ options.env = <<"staging">>
    /\ envStore[<<"staging">>].version = <<"v9">>
    /\ envStore[<<"default">>] = StoredDefault

\* C7: in forced mode getOrCreateEnvironment issues no prompt, and the name and
\* the alias sent to createProject are the ones supplied by the caller whenever
\* they were supplied, whether or not a default environment exists, and
\* otherwise the suggestions derived from the default environment.
C7_ForcedSendsSuppliedOrSuggested ==
    (command = "deploy" /\ options.force /\ sent # NoResult) =>
        /\ Count(calls, "prompt") = 0
        /\ options.name # undefined => sent.name = options.name
        /\ options.alias # undefined => sent.alias = options.alias
        /\ (RunEnvName # <<"default">> /\ envStore[<<"default">>] # NoEnv) =>
            /\ options.name = undefined =>
                 sent.name = envStore[<<"default">>].name
                                \o <<" (">> \o RunEnvName \o <<")">>
            /\ options.alias = undefined =>
                 sent.alias = envStore[<<"default">>].alias
                                \o <<"-">> \o RunEnvName

ReachableProbes == {i \in DOMAIN probes : probes[i] # LatencyNull}

\* C8: for two or more candidates of which at least one probe succeeded,
\* deploy's getCluster returns a reachable candidate of the lowest latency.
C8_LowestLatencySelected ==
    (/\ command = "deploy"
     /\ pc = "createProject"
     /\ Len(probes) >= 2
     /\ ReachableProbes # {}) =>
        \E i \in ReachableProbes :
            /\ cluster = edges[i]
            /\ \A j \in ReachableProbes : probes[i] <= probes[j]

\* C9: for two or more candidates with latencies from 0 upwards, the ranked
\* choices of init's getCluster start with a reachable candidate of the
\* smallest latency, have every unreachable candidate after every reachable
\* one, and keep candidates of equal latency in their input order.
C9_ChoicesRanked ==
    (command = "init" /\ pc = "createProject" /\ Len(choices) >= 2) =>
        /\ ReachableProbes # {} =>
            /\ choices[1] \in ReachableProbes
            /\ \A j \in ReachableProbes : probes[choices[1]] <= probes[j]
        /\ \A a, b \in DOMAIN choices :
            (a < b /\ choices[b] \in ReachableProbes) => choices[a] \in ReachableProbes
        /\ \A a, b \in DOMAIN choices :
            (/\ a < b
             /\ choices[a] \in ReachableProbes
             /\ probes[choices[a]] = probes[choices[b]]) => choices[a] < choices[b]

\* C10: for a list of exactly one candidate, getCluster of init and of deploy
\* returns that candidate and issues no probe.
C10_SingleCandidateNoProbe ==
    (/\ pc = "createProject"
     /\ Has("listCluster", "ok")
     /\ Len(edges) = 1) =>
        /\ cluster = edges[1]
        /\ Count(calls, "probe") = 0

\* the calls made after the listCluster query
AfterList ==
    SubSeq(calls, Pos(calls, "listCluster", "ok") + Pos(calls, "listCluster", "errors") + 1,
           Len(calls))

\* C11: when listCluster returns no edge, getCluster of init and of deploy
\* returns null with no probe issued and no prompt shown, and once getCluster
\* returned null the run never calls createProject.
C11_NoCandidatesNoCluster ==
    /\ (pc = "createProject" /\ edges = <<>>) =>
        /\ cluster = NoCluster
        /\ calls[Len(calls)] = Call("getCluster", "null")
        /\ Count(calls, "probe") = 0
        /\ Count(AfterList, "prompt") = 0
    /\ Has("getCluster", "null") => Count(calls, "createProject") = 0

\* a deploy run that threw after listCluster returned no edge
C11_Witness ==
    /\ pc = "done" /\ outcome = "thrown"
    /\ command = "deploy"
    /\ Has("listCluster", "ok")
    /\ Has("getCluster", "null")
    /\ Count(calls, "probe") = 0

\* C12: while and after the probes of a list of candidates run, exactly one
\* probe was issued per candidate and the run has not thrown; when getCluster
\* has returned, there is one timing per candidate, a latency or null, for
\* every set of failed probes, all of them included.
C12_OneProbePerCandidate ==
    (pc = "awaitProbes" \/ (pc = "createProject" /\ probes # <<>>)) =>
        /\ Count(calls, "probe") = Len(edges)
        /\ Len(probes) = Len(edges)
        /\ outcome = "running"
        /\ pc = "createProject" =>
            /\ \A i \in DOMAIN probes : probes[i] \in {LatencyNull} \cup (0..MaxLatency)
            /\ calls[Len(calls)].op = "getCluster"

\* getCluster returned a cluster after one probe failed and another succeeded
C12_Witness ==
    /\ pc = "createProject"
    /\ cluster # NoCluster
    /\ \E i, j \in DOMAIN probes : probes[i] = LatencyNull /\ probes[j] \in 0..MaxLatency

\* the probes that have neither completed nor failed
Outstanding == {i \in DOMAIN probes : probes[i] = Pending}

\* C13: every probe of the list is issued before the first one is awaited, so
\* while the timers run all of them are started; getCluster ranks, prompts,
\* selects and returns only when no probe is outstanding, whatever the order
\* in which the probes completed or failed, and after that no probe is issued.
C13_SelectionAfterAllSettled ==
    /\ pc = "awaitProbes" =>
        /\ Count(calls, "probe") = Len(probes)
        /\ Count(calls, "getCluster") = 0
        /\ ~Has("prompt", "cluster")
        /\ choices = <<>>
    /\ (pc = "createProject" /\ probes # <<>>) =>
        /\ Outstanding = {}
        /\ Count(calls, "probe") = Len(probes)
    /\ \A i, j \in DOMAIN calls :
        (calls[i].op = "probe" /\ (calls[j].op = "getCluster" \/ calls[j] = Call("prompt", "cluster")))
            => i < j

\* init showed the prompt after three probes had settled
C13_Witness ==
    /\ command = "init"
    /\ pc = "createProject"
    /\ Len(probes) = MaxClusters
    /\ Has("prompt", "cluster")
    /\ Len(choices) = MaxClusters

CouldNotLoadClusters ==
    <<"Could not load available clusters. Make sure you have a working internet connection and try again.">>

\* C14: once the listCluster response carried errors, with or without edges,
\* the run issues no probe, shows no cluster prompt, selects no cluster and
\* never calls createProject, and init ends with the error
\* 'Could not load available clusters...'.
C14_ListErrorStopsResolution ==
    Has("listCluster", "errors") =>
        /\ Count(calls, "probe") = 0
        /\ ~Has("prompt", "cluster")
        /\ cluster = NoCluster
        /\ Count(calls, "createProject") = 0
        /\ (command = "init" /\ pc = "done") =>
            (outcome = "thrown" /\ log[Len(log)] = CouldNotLoadClusters)

\* C15: in a deploy run the confirmation prompt is shown at most once, and it
\* was shown exactly when force is not set and the run went through the
\* confirm step; after the answer no the run has printed 'Deployment aborted'
\* as its last message and has returned without throwing, with no
\* migrateProject call, no loadProjectVersion call and no file refreshed.
C15_ConfirmUnlessForced ==
    command = "deploy" =>
        /\ Count(calls, "confirm") <= 1
        /\ Count(calls, "confirm") = 1 <=>
            (~options.force /\ Has("loadStatus", "valid") /\ pc # "confirm")
        /\ Has("confirm", "no") =>
            /\ pc = "done" /\ outcome = "returned"
            /\ log[Len(log)] = <<"Deployment aborted">>
            /\ Count(calls, "migrateProject") = 0
            /\ Count(calls, "loadProjectVersion") = 0
            /\ files = {}

\* a deploy run that was declined at the prompt
C15_Witness ==
    /\ command = "deploy"
    /\ ~options.force
    /\ Has("confirm", "no")
    /\ pc = "done"

\* a forced deploy run that went past the confirm step
C15_ForcedWitness ==
    /\ command = "deploy"
    /\ options.force
    /\ Count(calls, "migrateProject") = 1

\* C16: when a deploy run has ended with the success banner, the stored record
\* of the deployed environment has the version id of the node that the
\* migrateProject response of the run returned.
C16_StoredVersionIsDeployedVersion ==
    (command = "deploy" /\ pc = "done" /\ InLog(Banner)) =>
        /\ getEnvironment(envStore, RunEnvName) # NoEnv
        /\ getEnvironment(envStore, RunEnvName).version = result.node.version.id

\* a count and its noun, singular for the count 1 and plural otherwise
Noun(n, singular) == <<NumStr(n), singular>> \o (IF n = 1 THEN <<>> ELSE <<"s">>)

Rendered(counts) ==
    <<"Changes deployed to the slicknode servers: \n">>
    \o Noun(counts["add"], " addition") \o <<", ">>
    \o Noun(counts["update"], " update") \o <<", ">>
    \o Noun(counts["remove"], " removal")

\* C17: the summary printed before the success banner renders each of the
\* three counts with its noun in the singular exactly when the count is 1 and
\* with a trailing 's' otherwise, 0 included; the counts add 1, update 0,
\* remove 2 are rendered as '1 addition, 0 updates, 2 removals'.
C17_NounSingularExactlyForOne ==
    (command = "deploy" /\ pc = "done" /\ InLog(Banner)) =>
        /\ log[Len(log) - 1] = Rendered(ChangeCounts(result.changes))
        /\ Summary([add |-> 1, update |-> 0, remove |-> 2]) =
            <<"Changes deployed to the slicknode servers: \n",
              "1", " addition", ", ", "0", " update", "s", ", ", "2", " removal", "s">>

\* the spellings of a type tag
Spellings(t) ==
    CASE t = "add" -> {<<"ADD">>, <<"add">>}
      [] t = "update" -> {<<"UPDATE">>, <<"update">>}
      [] t = "remove" -> {<<"REMOVE">>, <<"remove">>}

Tally(changes) ==
    [t \in {"add", "update", "remove"} |->
        Len(Filter(changes, Spellings(t)))]

\* C18: the counts of the summary of a successful deploy run are, for add,
\* update and remove, the number of changes of the response whose tag is a
\* spelling of that type, and they add up to the number of changes; the
\* changes ADD, update, ADD, REMOVE count as add 2, update 1, remove 1 and
\* no change as three zeros.
C18_CountsPerLowerCasedType ==
    (command = "deploy" /\ pc = "done" /\ InLog(Banner)) =>
        LET counts == ChangeCounts(result.changes)
        IN  /\ counts = Tally(result.changes)
            /\ counts["add"] + counts["update"] + counts["remove"] = Len(result.changes)
            /\ log[Len(log) - 1] = Summary(Tally(result.changes))
            /\ ChangeCounts(<<<<"ADD">>, <<"update">>, <<"ADD">>, <<"REMOVE">>>>)
                    = [t \in {"add", "update", "remove"} |-> IF t = "add" THEN 2 ELSE 1]
            /\ ChangeCounts(<<>>) = [t \in {"add", "update", "remove"} |-> 0]

\* a successful deploy run of two changes whose tags are in upper case
C18_Witness ==
    /\ command = "deploy" /\ pc = "done" /\ InLog(Banner)
    /\ result.changes = <<<<"ADD">>, <<"REMOVE">>>>

\* the names that have a record in the store
Entries(store) == {n \in DOMAIN store : store[n] # NoEnv}

\* C19: when init has succeeded in a directory whose store had no record,
\* with one cluster listed and a created node that has a version bundle, the
\* store has exactly the entry 'default', the id, version, endpoint and name
\* of that entry are the id, version.id, endpoint and name of the node, and
\* the files of the node's bundle were extracted.
C19_InitStoresDefaultRecord ==
    (/\ command = "init"
     /\ pc = "done" /\ outcome = "returned"
     /\ Has("copy", "ok")
     /\ Has("listCluster", "ok") /\ Count(calls, "probe") = 0
     /\ getEnvironment(envStore, <<"staging">>) = NoEnv) =>
        /\ Entries(envStore) = {<<"default">>}
        /\ LET record == getEnvironment(envStore, <<"default">>)
                node == created.node
           IN  /\ record.id = node.id
               /\ record.version = node.version.id
               /\ record.endpoint = node.endpoint
               /\ record.name = node.name
               /\ node.version.bundle \in files
               /\ Cardinality(files) = 1

\* the run of the test "initializes project successfully"
C19_Witness ==
    /\ command = "init"
    /\ pc = "done" /\ outcome = "returned"
    /\ Has("listCluster", "ok") /\ Count(calls, "probe") = 0
    /\ created.node = NodeNoAlias
    /\ Entries(envStore) = {<<"default">>}
    /\ envStore[<<"default">>].version = <<"someid">>
    /\ files = {<<"http://localhost/bundle">>}

\* the bundle of the created node could not be fetched, written or extracted
BundleNotLoaded ==
    Has("fetchBundle", "failed") \/ Has("writeFile", "failed") \/ Has("extract", "failed")

\* C20: in an init run the record 'default' exists only when createProject
\* returned a node with a version bundle and the bundle was fetched, written
\* to disk and extracted before the record was written.  When the run has
\* ended after a response without node, a node without version bundle, or
\* a bundle that could not be loaded, it has thrown an error that starts with
\* 'Initialization failed', followed for a missing node by the message of
\* every server error, and the store has no record 'default'.
C20_RecordOnlyAfterBundleLoaded ==
    (command = "init" /\ Has("getEnvironment", "none")) =>
        /\ getEnvironment(envStore, <<"default">>) # NoEnv =>
            /\ created # NoResult
            /\ created.node # JsNull
            /\ ~Incomplete(created.node)
            /\ 0 < Pos(calls, "createProject", "node")
            /\ Pos(calls, "createProject", "node") < Pos(calls, "fetchBundle", "ok")
            /\ Pos(calls, "fetchBundle", "ok") < Pos(calls, "writeFile", "ok")
            /\ Pos(calls, "writeFile", "ok") < Pos(calls, "extract", "ok")
            /\ Pos(calls, "extract", "ok") < Pos(calls, "updateEnvironment", "written")
        /\ (/\ pc = "done"
            /\ created # NoResult
            /\ (created.node = JsNull \/ Incomplete(created.node) \/ BundleNotLoaded)) =>
            /\ outcome = "thrown"
            /\ Head(log[Len(log)]) = "Initialization failed: "
            /\ created.node = JsNull =>
                SubSeq(log[Len(log)], 3, Len(log[Len(log)])) = ErrorMessages(created.errors)
            /\ getEnvironment(envStore, <<"default">>) = NoEnv
            /\ Count(calls, "updateEnvironment") = 0

\* an init run that failed because the bundle could not be extracted
C20_Witness ==
    /\ command = "init"
    /\ pc = "done" /\ outcome = "thrown"
    /\ Has("extract", "failed")
    /\ getEnvironment(envStore, <<"default">>) = NoEnv

\* an init run that failed because the response had errors and no node
C20_NoNodeWitness ==
    /\ command = "init"
    /\ pc = "done" /\ outcome = "thrown"
    /\ created # NoResult /\ created.node = JsNull /\ created.errors # <<>>

AlreadyInitialized == <<"The directory is already initialized as a slicknode project">>

\* C21: an init run that starts with a record 'default' in the store throws
\* 'The directory is already initialized as a slicknode project' in its first
\* step: the store and the files are left as they were, this error is the
\* only message, and the lookup of the record is the only call, so that no
\* update check, authentication, directory creation, listCluster call or
\* createProject call was made; afterwards the run takes no step.
C21_InitializedDirectoryRejected ==
    [][(command = "init" /\ getEnvironment(envStore, <<"default">>) # NoEnv) =>
        /\ pc = "run"
        /\ pc' = "done" /\ outcome' = "thrown"
        /\ log' = <<AlreadyInitialized>>
        /\ calls' = <<Call("getEnvironment", "found")>>
        /\ envStore' = envStore
        /\ files' = files]_vars

\* an init run that was rejected in an initialized directory
C21_Witness ==
    /\ command = "init"
    /\ pc = "done" /\ outcome = "thrown"
    /\ Has("getEnvironment", "found")
    /\ log = <<AlreadyInitialized>>

\* C22: a deploy run that has ended without completing the migration and the
\* refresh of the files has ended with the non-zero signal, which for run is
\* a throw, and has printed a message; a run that completed both has ended
\* with the zero signal, a normal return, after printing the summary.
C22_AbortSignalsFailure ==
    (command = "deploy" /\ pc = "done") =>
        IF Has("migrateProject", "deployed") /\ Has("loadProjectVersion", "ok")
        THEN /\ outcome = "returned"
             /\ log[Len(log) - 1] = Summary(ChangeCounts(result.changes))
        ELSE /\ outcome = "thrown"
             /\ log # <<>>

NoCapacity ==
    <<"There is currently no cluster with sufficient capacity available. Try again later.">>

\* C23: when getCluster of deploy has probed a list of candidates, a cluster it
\* returns is a candidate whose probe succeeded, and when every probe failed
\* it returns null; a deploy run that has ended after getCluster returned
\* null has thrown after the no-capacity error, with no createProject call,
\* no write of the store and no record of the environment.
C23_UnreachableNeverSelected ==
    command = "deploy" =>
        /\ (pc = "createProject" /\ probes # <<>>) =>
            /\ cluster # NoCluster =>
                \E i \in DOMAIN probes : edges[i] = cluster /\ probes[i] # LatencyNull
            /\ (\A i \in DOMAIN probes : probes[i] = LatencyNull) =>
                /\ cluster = NoCluster
                /\ calls[Len(calls)] = Call("getCluster", "null")
        /\ (pc = "done" /\ Has("getCluster", "null")) =>
            /\ outcome = "thrown"
            /\ log[Len(log)] = NoCapacity
            /\ Count(calls, "createProject") = 0
            /\ Count(calls, "updateEnvironment") = 0
            /\ getEnvironment(envStore, RunEnvName) = NoEnv

\* a deploy run that threw after every probe of two or more candidates failed
C23_Witness ==
    /\ command = "deploy"
    /\ pc = "done" /\ outcome = "thrown"
    /\ Has("listCluster", "ok")
    /\ Count(calls, "probe") >= 2
    /\ Has("getCluster", "null")

====
